---- MODULE Spec2Model ----
(***************************************************************************)
(* Model of the /api/v1/forecast handler of nws-forecast-summarizer        *)
(* (src/src/routes/mod.rs): the process-wide call counter, and for each    *)
(* request the chain geocode_address -> forecast_address_from_coordinates  *)
(* -> get_forecast_periods -> simplify loop -> chat call.                  *)
(*                                                                         *)
(* Upstream responses are inputs, chosen with \E when a stage runs.  A     *)
(* panic (index out of bounds, unwrap of None/Err) unwinds the handler     *)
(* task, which then returns nothing: outcome "Aborted".  The other tasks   *)
(* go on (the default unwinding panic strategy).                           *)
(*                                                                         *)
(* JSON numbers are integers here (coordinates in 1/100000 degree), and    *)
(* the three long string literals of the handler are abbreviated.          *)
(***************************************************************************)
EXTENDS Integers, Sequences, FiniteSets, TLC

\* ------------------------------------------------------------------ bounds
NumRequests == 2
MaxPeriods == 2

Requests == 1..NumRequests

\* ------------------------------------------------------- serde_json::Value
\* A JSON value is a record of one uniform shape; t is the variant.
JNull == [t |-> "null", s |-> "", n |-> 0, a |-> <<>>, o |-> <<>>]
JStr(x) == [t |-> "string", s |-> x, n |-> 0, a |-> <<>>, o |-> <<>>]
JNum(x) == [t |-> "number", s |-> "", n |-> x, a |-> <<>>, o |-> <<>>]
JBool(x) == [t |-> "bool", s |-> "", n |-> IF x THEN 1 ELSE 0, a |-> <<>>, o |-> <<>>]
JArr(xs) == [t |-> "array", s |-> "", n |-> 0, a |-> xs, o |-> <<>>]
JObj(kvs) == [t |-> "object", s |-> "", n |-> 0, a |-> <<>>, o |-> kvs]
KV(key, val) == [k |-> key, v |-> val]

\* Value[&str]: Null when the value is not an object or has no such key.
JIndex(j, key) ==
  IF j.t = "object" /\ \E i \in 1..Len(j.o) : j.o[i].k = key
  THEN j.o[CHOOSE i \in 1..Len(j.o) : j.o[i].k = key].v
  ELSE JNull

\* Value::as_array
AsArray(j) == IF j.t = "array" THEN [some |-> TRUE, vec |-> j.a] ELSE [some |-> FALSE, vec |-> <<>>]

\* format!("{}", i64)
Digit(d) == SubSeq("0123456789", d + 1, d + 1)

RECURSIVE NatToStr(_)
NatToStr(n) == IF n < 10 THEN Digit(n) ELSE NatToStr(n \div 10) \o Digit(n % 10)

IntToStr(i) == IF i < 0 THEN "-" \o NatToStr(0 - i) ELSE NatToStr(i)

\* JSON string escaping of the quote and the backslash, character by
\* character (the string is split in halves to keep the evaluation shallow).
EscapeChar(c) == IF c = "\"" THEN "\\\"" ELSE IF c = "\\" THEN "\\\\" ELSE c

RECURSIVE JEscape(_)
JEscape(str) ==
  IF Len(str) = 0 THEN ""
  ELSE IF Len(str) = 1 THEN EscapeChar(str)
  ELSE JEscape(SubSeq(str, 1, Len(str) \div 2)) \o JEscape(SubSeq(str, Len(str) \div 2 + 1, Len(str)))

JQuote(str) == "\"" \o JEscape(str) \o "\""

\* Value::to_string (Display, compact form)
RECURSIVE JDisplay(_)
RECURSIVE JDisplayElems(_)
RECURSIVE JDisplayMembers(_)
JDisplay(j) ==
  CASE j.t = "null" -> "null"
    [] j.t = "string" -> JQuote(j.s)
    [] j.t = "number" -> IntToStr(j.n)
    [] j.t = "bool" -> IF j.n = 1 THEN "true" ELSE "false"
    [] j.t = "array" -> "[" \o JDisplayElems(j.a) \o "]"
    [] j.t = "object" -> "{" \o JDisplayMembers(j.o) \o "}"

JDisplayElems(xs) ==
  IF Len(xs) = 0 THEN ""
  ELSE IF Len(xs) = 1 THEN JDisplay(xs[1])
  ELSE JDisplay(xs[1]) \o "," \o JDisplayElems(Tail(xs))

JDisplayMembers(kvs) ==
  IF Len(kvs) = 0 THEN ""
  ELSE IF Len(kvs) = 1 THEN JQuote(kvs[1].k) \o ":" \o JDisplay(kvs[1].v)
  ELSE JQuote(kvs[1].k) \o ":" \o JDisplay(kvs[1].v) \o "," \o JDisplayMembers(Tail(kvs))

\* str::strip_prefix / str::strip_suffix
StripPrefix(str, p) ==
  IF Len(str) >= Len(p) /\ SubSeq(str, 1, Len(p)) = p
  THEN [some |-> TRUE, str |-> SubSeq(str, Len(p) + 1, Len(str))]
  ELSE [some |-> FALSE, str |-> ""]

StripSuffix(str, p) ==
  IF Len(str) >= Len(p) /\ SubSeq(str, Len(str) - Len(p) + 1, Len(str)) = p
  THEN [some |-> TRUE, str |-> SubSeq(str, 1, Len(str) - Len(p))]
  ELSE [some |-> FALSE, str |-> ""]

\* ------------------------------------------------------------ typed decoding
\* serde_json::from_str::<Coordinates>(&value.to_string()): the text is the
\* value's own rendering, so decoding sees the same value; "y" is the
\* latitude and "x" the longitude.
DecodeCoordinates(j) ==
  IF j.t = "object" /\ JIndex(j, "x").t = "number" /\ JIndex(j, "y").t = "number"
  THEN [r |-> "Ok", coordinates |-> [latitude |-> JIndex(j, "y").n, longitude |-> JIndex(j, "x").n]]
  ELSE [r |-> "Err", coordinates |-> [latitude |-> 0, longitude |-> 0]]

\* A unit-code/value struct (Dewpoint, RelativeHumidity) decodes when both
\* fields are present with their types.
IsUnitValue(j) == j.t = "object" /\ JIndex(j, "unitCode").t = "string" /\ JIndex(j, "value").t = "number"

\* ProbabilityOfPrecipitation: value is Option<i64>, absent or null is None.
IsProbability(j) ==
  /\ j.t = "object"
  /\ JIndex(j, "unitCode").t = "string"
  /\ JIndex(j, "value").t \in {"number", "null"}

\* Period (camelCase keys); temperatureTrend is Option<String>.
IsPeriod(j) ==
  /\ j.t = "object"
  /\ \A key \in {"detailedForecast", "endTime", "icon", "name", "shortForecast", "startTime",
                 "temperatureUnit", "windDirection", "windSpeed"} : JIndex(j, key).t = "string"
  /\ \A key \in {"number", "temperature"} : JIndex(j, key).t = "number"
  /\ JIndex(j, "isDaytime").t = "bool"
  /\ IsUnitValue(JIndex(j, "dewpoint"))
  /\ IsUnitValue(JIndex(j, "relativeHumidity"))
  /\ IsProbability(JIndex(j, "probabilityOfPrecipitation"))
  /\ JIndex(j, "temperatureTrend").t \in {"string", "null"}

Period(j) ==
  [detailed_forecast |-> JIndex(j, "detailedForecast").s,
   dewpoint |-> [unit_code |-> JIndex(JIndex(j, "dewpoint"), "unitCode").s,
                 value |-> JIndex(JIndex(j, "dewpoint"), "value").n],
   end_time |-> JIndex(j, "endTime").s,
   icon |-> JIndex(j, "icon").s,
   is_daytime |-> (JIndex(j, "isDaytime").n = 1),
   name |-> JIndex(j, "name").s,
   number |-> JIndex(j, "number").n,
   probability_of_precipitation |->
     [unit_code |-> JIndex(JIndex(j, "probabilityOfPrecipitation"), "unitCode").s,
      value |-> [some |-> (JIndex(JIndex(j, "probabilityOfPrecipitation"), "value").t = "number"),
                 n |-> JIndex(JIndex(j, "probabilityOfPrecipitation"), "value").n]],
   relative_humidity |-> [unit_code |-> JIndex(JIndex(j, "relativeHumidity"), "unitCode").s,
                          value |-> JIndex(JIndex(j, "relativeHumidity"), "value").n],
   short_forecast |-> JIndex(j, "shortForecast").s,
   start_time |-> JIndex(j, "startTime").s,
   temperature |-> JIndex(j, "temperature").n,
   temperature_trend |-> [some |-> (JIndex(j, "temperatureTrend").t = "string"),
                          s |-> JIndex(j, "temperatureTrend").s],
   temperature_unit |-> JIndex(j, "temperatureUnit").s,
   wind_direction |-> JIndex(j, "windDirection").s,
   wind_speed |-> JIndex(j, "windSpeed").s]

\* serde_json::from_str::<Vec<Period>>: a sequence all of whose elements
\* decode; one malformed element fails the whole decode.
RECURSIVE PeriodVec(_)
PeriodVec(elements) ==
  IF Len(elements) = 0 THEN <<>> ELSE <<Period(Head(elements))>> \o PeriodVec(Tail(elements))

DecodePeriods(j) ==
  IF j.t = "array" /\ \A i \in 1..Len(j.a) : IsPeriod(j.a[i])
  THEN [r |-> "Ok", periods |-> PeriodVec(j.a)]
  ELSE [r |-> "Err", periods |-> <<>>]

\* ------------------------------------------------------------------ stages
\* An upstream HTTP exchange: the send fails, the body is not JSON, or the
\* body is the JSON value body.
HttpResponse(k, b) == [kind |-> k, body |-> b]

\* geocode_address, from the response on
geocode_address(geocode_response) ==
  LET NoCoordinates == [latitude |-> 0, longitude |-> 0]
      address_matches_option ==
        AsArray(JIndex(JIndex(geocode_response.body, "result"), "addressMatches"))
  IN IF geocode_response.kind # "json" THEN [r |-> "Err", coordinates |-> NoCoordinates]
     ELSE IF ~address_matches_option.some THEN [r |-> "Err", coordinates |-> NoCoordinates]
     ELSE IF Len(address_matches_option.vec) = 0
          THEN [r |-> "Panic", coordinates |-> NoCoordinates]
     ELSE DecodeCoordinates(JIndex(address_matches_option.vec[1], "coordinates"))

\* forecast_address_from_coordinates, from the response on
forecast_address_from_coordinates(point_response) ==
  LET forecast_url_string == JDisplay(JIndex(JIndex(point_response.body, "properties"), "forecast"))
      stripped_prefix == StripPrefix(forecast_url_string, "\"")
      stripped_suffix == StripSuffix(stripped_prefix.str, "\"")
  IN IF point_response.kind # "json" THEN [r |-> "Err", forecast_url |-> ""]
     ELSE IF Len(forecast_url_string) = 0 THEN [r |-> "Err", forecast_url |-> ""]
     ELSE IF ~stripped_prefix.some THEN [r |-> "Panic", forecast_url |-> ""]
     ELSE IF ~stripped_suffix.some THEN [r |-> "Panic", forecast_url |-> ""]
     ELSE [r |-> "Ok", forecast_url |-> stripped_suffix.str]

\* client.get(url).send() fails before any exchange when url is not an
\* absolute http(s) URL.
IsHttpUrl(url) == StripPrefix(url, "https://").some \/ StripPrefix(url, "http://").some

\* get_forecast_periods, from the response on
get_forecast_periods(url, forecast_response) ==
  LET periods_value == JIndex(JIndex(forecast_response.body, "properties"), "periods")
      periods_json == JDisplay(periods_value)
  IN IF ~IsHttpUrl(url) THEN [r |-> "Err", periods |-> <<>>]
     ELSE IF forecast_response.kind # "json" THEN [r |-> "Err", periods |-> <<>>]
     ELSE IF Len(periods_json) = 0 THEN [r |-> "Err", periods |-> <<>>]
     ELSE DecodePeriods(periods_value)

\* --------------------------------------------------------- period simplifier
\* Variant: temperature and unit separated by a space.
SimplifiedForecastPeriodSpaced(period) ==
  [detailed_forecast |-> period.detailed_forecast,
   end_time |-> period.end_time,
   name |-> period.name,
   relative_humidity |-> IntToStr(period.relative_humidity.value) \o "%",
   start_time |-> period.start_time,
   temperature |-> IntToStr(period.temperature) \o " " \o period.temperature_unit,
   wind_speed |-> period.wind_speed \o " " \o period.wind_direction]

\* The SimplifiedForecastPeriod literal pushed by one loop iteration.
SimplifiedForecastPeriod(period) ==
  [detailed_forecast |-> period.detailed_forecast,
   end_time |-> period.end_time,
   name |-> period.name,
   relative_humidity |-> IntToStr(period.relative_humidity.value) \o "%",
   start_time |-> period.start_time,
   temperature |-> IntToStr(period.temperature) \o period.temperature_unit,
   wind_speed |-> period.wind_speed \o " " \o period.wind_direction]

\* for period in periods { simplified_forecast_periods.push(..) }, starting
\* from the vector acc.
RECURSIVE simplify_loop(_, _)
simplify_loop(acc, remaining) ==
  IF Len(remaining) = 0 THEN acc
  ELSE simplify_loop(Append(acc, SimplifiedForecastPeriod(Head(remaining))), Tail(remaining))

\* ------------------------------------------------------------- summarizer
\* serde_json::to_string(&Vec<SimplifiedForecastPeriod>): members in field
\* declaration order, keys as declared (no rename).
SimplifiedToValue(sp) ==
  JObj(<<KV("detailed_forecast", JStr(sp.detailed_forecast)),
         KV("end_time", JStr(sp.end_time)),
         KV("name", JStr(sp.name)),
         KV("relative_humidity", JStr(sp.relative_humidity)),
         KV("start_time", JStr(sp.start_time)),
         KV("temperature", JStr(sp.temperature)),
         KV("wind_speed", JStr(sp.wind_speed))>>)

RECURSIVE ToValues(_)
ToValues(simplified) ==
  IF Len(simplified) = 0 THEN <<>>
  ELSE <<SimplifiedToValue(Head(simplified))>> \o ToValues(Tail(simplified))

to_string(simplified) == JDisplay(JArr(ToValues(simplified)))

\* The string literals of the handler, abbreviated to their opening words.
prompt == "You are a tool that can provide concise summaries of weather forecasts."
training_input == "[{\"name\": \"Tonight\", \"start_time\": \"2024-06-08T20:00:00-07:00\"}]"
training_output == "{\"summary\": \"This week will be mostly sunny and mild.\"}"

ChatMessage(role, content) == [role |-> role, content |-> content]

\* Variant: the few-shot pair is left out of the conversation.
chat_request_zero_shot(simplified_forecast_json) ==
  <<ChatMessage("system", prompt), ChatMessage("user", simplified_forecast_json)>>

\* The vec! of messages handed to ChatMessageRequest::new.
chat_request(simplified_forecast_json) ==
  <<ChatMessage("system", prompt),
    ChatMessage("user", training_input),
    ChatMessage("assistant", training_output),
    ChatMessage("user", simplified_forecast_json)>>

\* send_chat_messages(..).await.unwrap() and chat.message.unwrap().content
chat_content(chat) ==
  IF chat.kind = "error" THEN [r |-> "Panic", content |-> ""]
  ELSE IF chat.kind = "no_message" THEN [r |-> "Panic", content |-> ""]
  ELSE [r |-> "Ok", content |-> chat.body.s]

\* Variant: a missing parameter is taken as the empty address.
address_result_or_default(query) == [r |-> "Ok", address |-> query.value, message |-> ""]

\* params.get("address") mapped to Ok(address) / Err(message)
address_result(query) ==
  IF query.present THEN [r |-> "Ok", address |-> query.value, message |-> ""]
  ELSE [r |-> "Err", address |-> "", message |-> "address parameter is required"]

\* Variant: the counter is set, not incremented.
set_one(counter) == 1

\* Counter::inc on the counter value
inc(counter) == counter + 1

\* ------------------------------------------------------------------ inputs
\* Query strings: no address parameter, an empty one, a street address.
QueryParams ==
  {[present |-> FALSE, value |-> ""],
   [present |-> TRUE, value |-> ""],
   [present |-> TRUE, value |-> "1600 Pennsylvania Ave NW, Washington, DC"]}

Match(x, y) == JObj(<<KV("matchedAddress", JStr("1600 PENNSYLVANIA AVE NW")),
                      KV("coordinates", JObj(<<KV("x", JNum(x)), KV("y", JNum(y))>>))>>)

GeocoderBody(matches) == JObj(<<KV("result", JObj(<<KV("addressMatches", matches)>>))>>)

\* The geocoder's possible responses, numbered.  Coordinates are in units
\* of 1/100000 degree.
GeocoderResponses ==
  <<HttpResponse("transport_error", JNull),
   HttpResponse("not_json", JNull),
   HttpResponse("json", JObj(<<KV("errors", JArr(<<JStr("bad request")>>))>>)),
   HttpResponse("json", GeocoderBody(JArr(<<>>))),
   HttpResponse("json", GeocoderBody(JArr(<<JObj(<<KV("matchedAddress", JStr("x"))>>)>>))),
   HttpResponse("json", GeocoderBody(JArr(<<Match(-7703654, 3889768), Match(-12233000, 4760000)>>)))>>

PointsBody(forecast) == JObj(<<KV("properties", JObj(<<KV("forecast", forecast)>>))>>)

\* The points API's possible responses, numbered.
PointsResponses ==
  <<HttpResponse("transport_error", JNull),
   HttpResponse("not_json", JNull),
   HttpResponse("json", JObj(<<KV("properties", JObj(<<KV("gridId", JStr("LWX"))>>))>>)),
   HttpResponse("json", PointsBody(JNum(5))),
   HttpResponse("json", PointsBody(JStr(""))),
   HttpResponse("json", PointsBody(JStr("https://api.weather.gov/gridpoints/LWX/97,71/forecast")))>>

SampleName(i) == <<"Tonight", "Sunday", "Sunday Night">>[i]
SampleTemperature(i) == <<-3, 54, 101>>[i]
SampleUnit(i) == <<"C", "F", "F">>[i]
SampleWindSpeed(i) == <<"5 to 10 mph", "2 mph", "0 mph">>[i]
SampleWindDirection(i) == <<"SSW", "E", "N">>[i]
SampleHumidity(i) == <<100, 80, 7>>[i]
SampleDetail(i) == <<"A \"wintry\" mix.", "Mostly cloudy, low near 54.", "Hot.">>[i]

NumSamples == Len(<<"Tonight", "Sunday", "Sunday Night">>)

SamplePeriod(i) ==
  JObj(<<KV("number", JNum(i)),
         KV("name", JStr(SampleName(i))),
         KV("startTime", JStr("2024-06-0" \o IntToStr(i) \o "T06:00:00-07:00")),
         KV("endTime", JStr("2024-06-0" \o IntToStr(i) \o "T18:00:00-07:00")),
         KV("isDaytime", JBool(i = 2)),
         KV("temperature", JNum(SampleTemperature(i))),
         KV("temperatureUnit", JStr(SampleUnit(i))),
         KV("temperatureTrend", IF i = 1 THEN JNull ELSE JStr("falling")),
         KV("probabilityOfPrecipitation",
            JObj(<<KV("unitCode", JStr("wmoUnit:percent")), KV("value", IF i = 3 THEN JNum(20) ELSE JNull)>>)),
         KV("dewpoint", JObj(<<KV("unitCode", JStr("wmoUnit:degC")), KV("value", JNum(i + 9))>>)),
         KV("relativeHumidity",
            JObj(<<KV("unitCode", JStr("wmoUnit:percent")), KV("value", JNum(SampleHumidity(i)))>>)),
         KV("windSpeed", JStr(SampleWindSpeed(i))),
         KV("windDirection", JStr(SampleWindDirection(i))),
         KV("icon", JStr("icons/bkn")),
         KV("shortForecast", JStr("Mostly Cloudy")),
         KV("detailedForecast", JStr(SampleDetail(i)))>>)

\* A period whose temperature is a string: it does not decode.
MalformedPeriod ==
  JObj(<<KV("number", JNum(1)), KV("name", JStr("Tonight")), KV("temperature", JStr("54"))>>)

\* The first n sample periods, cycling through the samples.
RECURSIVE SamplePeriods(_)
SamplePeriods(n) ==
  IF n = 0 THEN <<>> ELSE Append(SamplePeriods(n - 1), SamplePeriod(((n - 1) % NumSamples) + 1))

ForecastBody(period_values) == JObj(<<KV("properties", JObj(<<KV("periods", period_values)>>))>>)

\* Responses carrying 0, 1, .., n sample periods.
RECURSIVE PeriodsResponses(_)
PeriodsResponses(n) ==
  IF n < 0 THEN <<>>
  ELSE Append(PeriodsResponses(n - 1), HttpResponse("json", ForecastBody(JArr(SamplePeriods(n)))))

\* The forecast API's possible responses, numbered.
ForecastResponses ==
  <<HttpResponse("transport_error", JNull),
    HttpResponse("not_json", JNull),
    HttpResponse("json", JObj(<<KV("status", JNum(404))>>)),
    HttpResponse("json", ForecastBody(JArr(<<SamplePeriod(1), MalformedPeriod>>)))>>
  \o PeriodsResponses(MaxPeriods)

\* The chat call fails, answers without a message, or answers with a message.
ChatResponses ==
  <<HttpResponse("error", JNull),
   HttpResponse("no_message", JNull),
   HttpResponse("message", JStr("{\"summary\": \"Mild and mostly sunny.\"}"))>>

\* What each stage returns, for every response of its upstream service;
\* received is the number of the response.
GeocodeResults ==
  {[received |-> i, result |-> geocode_address(GeocoderResponses[i])] :
     i \in 1..Len(GeocoderResponses)}

LocateResults ==
  {[received |-> i, result |-> forecast_address_from_coordinates(PointsResponses[i])] :
     i \in 1..Len(PointsResponses)}

\* No exchange takes place for a URL that is not an http(s) URL: the send
\* itself fails.
FetchResults ==
  {[forecast_url |-> located.result.forecast_url,
    received |-> i,
    result |-> get_forecast_periods(located.result.forecast_url, ForecastResponses[i])] :
     located \in {l \in LocateResults : l.result.r = "Ok"},
     i \in 1..Len(ForecastResponses)}

ChatResults ==
  {[received |-> i, result |-> chat_content(ChatResponses[i])] : i \in 1..Len(ChatResponses)}

\* ------------------------------------------------------------------- state
VARIABLES
  FORECAST_COUNTER,             \* value of the forecast_total counter
  pc,                           \* per request: where the handler is
  params,                       \* per request: the "address" entry of the query
  address,                      \* per request: local address
  coordinates,                  \* per request: local coordinates
  forecast_url,                 \* per request: local forecast_url
  periods,                      \* per request: local periods
  simplified_forecast_periods,  \* per request: local simplified_forecast_periods
  calls,                        \* per request: outbound calls made: service, number of the response, how the stage ended
  chat_messages,                \* per request: the messages of the chat request sent
  response                      \* per request: what the handler returned

vars == <<FORECAST_COUNTER, pc, params, address, coordinates, forecast_url, periods,
          simplified_forecast_periods, calls, chat_messages, response>>

Call(service, received, result) == [service |-> service, received |-> received, result |-> result]

Pending == [kind |-> "Pending", body |-> ""]
Ok(body) == [kind |-> "Ok", body |-> body]
Err(message) == [kind |-> "Err", body |-> message]
Aborted == [kind |-> "Aborted", body |-> ""]

\* What the handler does with a stage's Result: go on, return Err(message),
\* or unwind when the stage panicked.
Continue(r, result, next, message) ==
  /\ pc' = [pc EXCEPT ![r] = IF result = "Ok" THEN next ELSE "done"]
  /\ response' = [response EXCEPT ![r] =
                    IF result = "Ok" THEN Pending
                    ELSE IF result = "Err" THEN Err(message)
                    ELSE Aborted]

Init ==
  /\ FORECAST_COUNTER = 0
  /\ pc = [r \in Requests |-> "idle"]
  /\ params = [r \in Requests |-> [present |-> FALSE, value |-> ""]]
  /\ address = [r \in Requests |-> ""]
  /\ coordinates = [r \in Requests |-> [latitude |-> 0, longitude |-> 0]]
  /\ forecast_url = [r \in Requests |-> ""]
  /\ periods = [r \in Requests |-> <<>>]
  /\ simplified_forecast_periods = [r \in Requests |-> <<>>]
  /\ calls = [r \in Requests |-> <<>>]
  /\ chat_messages = [r \in Requests |-> <<>>]
  /\ response = [r \in Requests |-> Pending]

\* A request arrives and the handler runs its first statement.
Enter(r) ==
  /\ pc[r] = "idle"
  /\ \E query \in QueryParams : params' = [params EXCEPT ![r] = query]
  /\ FORECAST_COUNTER' = inc(FORECAST_COUNTER)
  /\ pc' = [pc EXCEPT ![r] = "address"]
  /\ UNCHANGED <<address, coordinates, forecast_url, periods, simplified_forecast_periods,
                 calls, chat_messages, response>>

\* let address_result = ..; let address = match address_result ..
GetAddress(r) ==
  /\ pc[r] = "address"
  /\ LET result == address_result(params[r])
     IN /\ address' = [address EXCEPT ![r] = result.address]
        /\ Continue(r, result.r, "geocode", result.message)
  /\ UNCHANGED <<FORECAST_COUNTER, params, coordinates, forecast_url, periods,
                 simplified_forecast_periods, calls, chat_messages>>

\* geocode_address(..).await and the match on its result
Geocode(r) ==
  /\ pc[r] = "geocode"
  /\ \E stage \in GeocodeResults :
       /\ calls' = [calls EXCEPT ![r] = Append(@, Call("geocoder", stage.received, stage.result.r))]
       /\ coordinates' = [coordinates EXCEPT ![r] = stage.result.coordinates]
       /\ Continue(r, stage.result.r, "locate", "error geocoding address")
  /\ UNCHANGED <<FORECAST_COUNTER, params, address, forecast_url, periods,
                 simplified_forecast_periods, chat_messages>>

\* forecast_address_from_coordinates(..).await and the match on its result
Locate(r) ==
  /\ pc[r] = "locate"
  /\ \E stage \in LocateResults :
       /\ calls' = [calls EXCEPT ![r] = Append(@, Call("points", stage.received, stage.result.r))]
       /\ forecast_url' = [forecast_url EXCEPT ![r] = stage.result.forecast_url]
       /\ Continue(r, stage.result.r, "fetch", "error getting forecast URL")
  /\ UNCHANGED <<FORECAST_COUNTER, params, address, coordinates, periods,
                 simplified_forecast_periods, chat_messages>>

\* get_forecast_periods(..).await and the match on its result.  For a URL
\* that is no http(s) URL the only thing received is the failure to send.
Fetch(r) ==
  /\ pc[r] = "fetch"
  /\ \E stage \in FetchResults :
       /\ stage.forecast_url = forecast_url[r]
       /\ IsHttpUrl(forecast_url[r]) \/ ForecastResponses[stage.received].kind = "transport_error"
       /\ calls' = [calls EXCEPT ![r] = Append(@, Call("forecast", stage.received, stage.result.r))]
       /\ periods' = [periods EXCEPT ![r] = stage.result.periods]
       /\ Continue(r, stage.result.r, "summarize", "error getting forecast periods")
  /\ UNCHANGED <<FORECAST_COUNTER, params, address, coordinates, forecast_url,
                 simplified_forecast_periods, chat_messages>>

\* From the simplify loop to the end of the handler: the loop, the
\* serialization, the chat request, both unwraps and Ok(response).
Summarize(r) ==
  /\ pc[r] = "summarize"
  /\ LET simplified == simplify_loop(<<>>, periods[r])
         simplified_forecast_json == to_string(simplified)
     IN /\ simplified_forecast_periods' = [simplified_forecast_periods EXCEPT ![r] = simplified]
        /\ chat_messages' = [chat_messages EXCEPT ![r] = chat_request(simplified_forecast_json)]
  /\ \E stage \in ChatResults :
       /\ calls' = [calls EXCEPT ![r] = Append(@, Call("chat", stage.received, stage.result.r))]
       /\ response' = [response EXCEPT ![r] =
                         IF stage.result.r = "Ok" THEN Ok(stage.result.content) ELSE Aborted]
  /\ pc' = [pc EXCEPT ![r] = "done"]
  /\ UNCHANGED <<FORECAST_COUNTER, params, address, coordinates, forecast_url, periods>>

Next ==
  \E r \in Requests :
    \/ Enter(r)
    \/ GetAddress(r)
    \/ Geocode(r)
    \/ Locate(r)
    \/ Fetch(r)
    \/ Summarize(r)

Spec == Init /\ [][Next]_vars

\* -------------------------------------------------------------- properties
Called(r, service) == \E i \in 1..Len(calls[r]) : calls[r][i].service = service

CallOf(r, service) == calls[r][CHOOSE i \in 1..Len(calls[r]) : calls[r][i].service = service]

StageOrder == <<"geocoder", "points", "forecast", "chat">>

StageMessage == <<"error geocoding address", "error getting forecast URL",
                  "error getting forecast periods">>

\* The stages run at most once each, in pipeline order, each only after the
\* one before it returned Ok.
StagesInOrder ==
  \A r \in Requests :
    /\ Len(calls[r]) <= Len(StageOrder)
    /\ \A i \in 1..Len(calls[r]) :
         /\ calls[r][i].service = StageOrder[i]
         /\ i > 1 => calls[r][i - 1].result = "Ok"

\* C1: geocode, locate, fetch and summarize are each invoked at most once,
\* in that order, a stage only if every earlier one succeeded; and when
\* geocode, locate or fetch is the first stage not to succeed, the request
\* ends in Failure with that stage's message and nothing is called after it.
C1_FirstFailureEndsInStageMessage ==
  /\ StagesInOrder
  /\ \A r \in Requests : \A i \in 1..Len(calls[r]) :
       (i <= Len(StageMessage) /\ calls[r][i].result # "Ok") =>
         /\ i = Len(calls[r])
         /\ pc[r] = "done"
         /\ response[r] = Err(StageMessage[i])

\* C2: a request without an address parameter ends in the Failure
\* "address parameter is required" and makes no outbound call.
C2_MissingAddressFailsWithoutCalls ==
  \A r \in Requests :
    (pc[r] # "idle" /\ ~params[r].present) =>
      /\ calls[r] = <<>>
      /\ chat_messages[r] = <<>>
      /\ pc[r] \in {"address", "done"}
      /\ pc[r] = "done" => response[r] = Err("address parameter is required")

C2_Witness ==
  \E r \in Requests : pc[r] = "done" /\ ~params[r].present /\ response[r].kind = "Err"

\* C3: the counter equals the number of requests that have entered the
\* handler, whatever became of them; with all N requests in, it is N.
C3_CounterCountsRequests ==
  /\ FORECAST_COUNTER = Cardinality({r \in Requests : pc[r] # "idle"})
  /\ (\A r \in Requests : pc[r] = "done") => FORECAST_COUNTER = NumRequests

C3_Witness ==
  /\ \A r \in Requests : pc[r] = "done"
  /\ FORECAST_COUNTER = NumRequests
  /\ \E r1, r2 \in Requests : response[r1].kind = "Aborted" /\ response[r2].kind = "Err"

\* The geocoder answered with JSON whose result.addressMatches is [].
EmptyAddressMatches(http) ==
  /\ http.kind = "json"
  /\ JIndex(JIndex(http.body, "result"), "addressMatches") = JArr(<<>>)

\* C4: on an empty addressMatches array geocode_address returns an error,
\* the request ends in Failure "error geocoding address" and the locator is
\* not called.
C4_EmptyMatchesIsGeocodeFailure ==
  \A r \in Requests :
    (Called(r, "geocoder") /\ EmptyAddressMatches(GeocoderResponses[CallOf(r, "geocoder").received])) =>
      /\ CallOf(r, "geocoder").result = "Err"
      /\ response[r] = Err("error geocoding address")
      /\ ~Called(r, "points")

\* The forecast service answered with JSON whose properties.periods is [].
EmptyPeriods(http) ==
  /\ http.kind = "json"
  /\ JIndex(JIndex(http.body, "properties"), "periods") = JArr(<<>>)

\* C5: on an empty periods array get_forecast_periods returns an error, the
\* request ends in Failure "error getting forecast periods" and the chat
\* service is not called.
C5_EmptyPeriodsIsFetchFailure ==
  \A r \in Requests :
    (Called(r, "forecast") /\ EmptyPeriods(ForecastResponses[CallOf(r, "forecast").received])) =>
      /\ CallOf(r, "forecast").result = "Err"
      /\ response[r] = Err("error getting forecast periods")
      /\ ~Called(r, "chat")

\* The points API answered with JSON whose properties.forecast is missing
\* or is not a non-empty string.
NoForecastUrl(http) ==
  /\ http.kind = "json"
  /\ LET forecast == JIndex(JIndex(http.body, "properties"), "forecast")
     IN forecast.t # "string" \/ forecast.s = ""

\* C6: when properties.forecast is missing or not a non-empty string,
\* forecast_address_from_coordinates returns an error, the request ends in
\* Failure "error getting forecast URL" and the fetcher is not called.
C6_MissingForecastUrlIsLocateFailure ==
  \A r \in Requests :
    (Called(r, "points") /\ NoForecastUrl(PointsResponses[CallOf(r, "points").received])) =>
      /\ CallOf(r, "points").result = "Err"
      /\ response[r] = Err("error getting forecast URL")
      /\ ~Called(r, "forecast")

\* C7: a request ends with Ok(summary) or Err(reason) returned, never with
\* the handler aborted; stated for the requests that reach the chat call,
\* where a call that fails or answers without a message must end the
\* request in Failure.
C7_EndsInSuccessOrFailure ==
  \A r \in Requests :
    (pc[r] = "done" /\ Called(r, "chat")) =>
      /\ response[r].kind \in {"Ok", "Err"}
      /\ ChatResponses[CallOf(r, "chat").received].kind # "message" => response[r].kind = "Err"

\* C8: the geocoder is only ever called with a non-empty address.
C8_GeocoderAddressNonEmpty ==
  \A r \in Requests : Called(r, "geocoder") => address[r] # ""

\* For each numbered forecast response, the JSON text of its periods once
\* simplified ("" where the fetch fails).
RECURSIVE SimplifiedJsonUpTo(_)
SimplifiedJsonUpTo(n) ==
  IF n = 0 THEN <<>>
  ELSE LET fetched == get_forecast_periods("https://api.weather.gov/", ForecastResponses[n])
       IN Append(SimplifiedJsonUpTo(n - 1),
                 IF fetched.r = "Ok" THEN to_string(simplify_loop(<<>>, fetched.periods)) ELSE "")

SimplifiedJson == SimplifiedJsonUpTo(Len(ForecastResponses))

\* C9: a chat call carries exactly four messages: the system prompt, the
\* few-shot input as user, the few-shot output as assistant, and the JSON
\* of the simplified periods of the forecast this request fetched as user;
\* the first three are the same for all requests; a Success body is the
\* received message content.
C9_FourMessageConversation ==
  /\ \A r \in Requests :
       IF Called(r, "chat")
       THEN /\ Len(chat_messages[r]) = 4
            /\ chat_messages[r][1] = [role |-> "system", content |-> prompt]
            /\ chat_messages[r][2] = [role |-> "user", content |-> training_input]
            /\ chat_messages[r][3] = [role |-> "assistant", content |-> training_output]
            /\ chat_messages[r][4].role = "user"
            /\ chat_messages[r][4].content = SimplifiedJson[CallOf(r, "forecast").received]
            /\ response[r].kind = "Ok" =>
                 /\ ChatResponses[CallOf(r, "chat").received].kind = "message"
                 /\ response[r].body = ChatResponses[CallOf(r, "chat").received].body.s
       ELSE chat_messages[r] = <<>> /\ response[r].kind # "Ok"
  /\ \A r1, r2 \in Requests :
       (Called(r1, "chat") /\ Called(r2, "chat")) =>
         SubSeq(chat_messages[r1], 1, 3) = SubSeq(chat_messages[r2], 1, 3)

C9_Witness ==
  \E r1, r2 \in Requests :
    /\ response[r1].kind = "Ok" /\ response[r2].kind = "Ok"
    /\ Len(periods[r1]) > 0
    /\ chat_messages[r1][4] # chat_messages[r2][4]

\* C10: when the handler has simplified n fetched periods there are n
\* simplified periods, entry i made from period i: four fields copied,
\* temperature "<temperature><unit>", windSpeed "<speed> <direction>",
\* relativeHumidity "<value>%"; every fetch that returned Ok is simplified.
C10_SimplifyIsOneToOne ==
  \A r \in Requests :
    (pc[r] = "done" /\ Called(r, "forecast") /\ CallOf(r, "forecast").result = "Ok") =>
      /\ Called(r, "chat")
      /\ Len(simplified_forecast_periods[r]) = Len(periods[r])
      /\ \A i \in 1..Len(periods[r]) :
           LET period == periods[r][i]
               simple == simplified_forecast_periods[r][i]
           IN /\ simple.name = period.name
              /\ simple.start_time = period.start_time
              /\ simple.end_time = period.end_time
              /\ simple.detailed_forecast = period.detailed_forecast
              /\ simple.temperature = IntToStr(period.temperature) \o period.temperature_unit
              /\ simple.wind_speed = period.wind_speed \o " " \o period.wind_direction
              /\ simple.relative_humidity = IntToStr(period.relative_humidity.value) \o "%"

C10_Witness ==
  \E r \in Requests :
    /\ pc[r] = "done"
    /\ Len(simplified_forecast_periods[r]) = MaxPeriods
    /\ simplified_forecast_periods[r][1].temperature = "-3C"
    /\ simplified_forecast_periods[r][2].wind_speed = "2 mph E"
    /\ simplified_forecast_periods[r][1].relative_humidity = "100%"

====
